---- MODULE Spec2Model ----
(***************************************************************************)
(* Model of the retrieval orchestrator of ai-ta-backend:                   *)
(*   - GraphDatabase.run_kg_query_with_retries (database/graph.py), the    *)
(*     LangGraph retry loop query_node -> should_retry -> END,             *)
(*   - generate_primekg_cypher / generate_clinicalkg_cypher,               *)
(*   - RetrievalService.getTopContexts and its helpers                     *)
(*     (service/retrieval_service.py).                                     *)
(* Python strings are TLA+ strings; Python dicts are records with         *)
(* explicit presence flags or functions over the keys that are present.    *)
(***************************************************************************)
EXTENDS Integers, Sequences, FiniteSets, TLC

VARIABLES
  run,      \* RetrySpec: one call of run_kg_query_with_retries
  req,      \* Spec: the arguments of one getTopContexts call
  pc,       \* Spec: position of the getTopContexts coroutine
  tasks,    \* Spec: the three thread-pool lookups
  search_results, \* Spec: what the vector database returned
  formatted,      \* Spec: the list built by format_for_json and the appends
  kg,       \* Spec: per engine, the get_kg_context coroutine and its retry run
  events,   \* Spec: telemetry events emitted so far, in order
  ret,      \* Spec: the value returned by getTopContexts
  svc,      \* LatencySpec: the latency fields of the RetrievalService object
  lat,      \* LatencySpec: per concurrent request, its position and its latencies
  mp        \* MultiSpec: one call of BaseMultiProcessor.run, its pool and its files

vars == <<run, req, pc, tasks, search_results, formatted, kg, events, ret, svc, lat, mp>>

retryVars == <<run>>
orchVars == <<req, pc, tasks, search_results, formatted, kg, events, ret, svc, lat, mp>>
requestVars == <<run, req, pc, tasks, search_results, formatted, kg, events, ret>>
retrievalVars == <<req, pc, tasks, search_results, formatted, kg, events, ret, svc, lat>>

(***************************************************************************)
(* Bounds of the model.                                                    *)
(***************************************************************************)
MaxMaxAttempts == 4
MaxChunks == 2
MaxRequests == 2
MaxLatency == 2
MaxItems == 2
MaxWorkers == 2
MaxRecords == 2

(***************************************************************************)
(* String helpers: str.lower(), the `in` substring test, str.strip(' "').  *)
(***************************************************************************)
UpperAlpha == "ABCDEFGHIJKLMNOPQRSTUVWXYZ"
LowerAlpha == "abcdefghijklmnopqrstuvwxyz"
Digits == "0123456789"

CharAt(s, i) == SubSeq(s, i, i)

CharsOf(s) == {CharAt(s, i) : i \in 1..Len(s)}

Min(S) == CHOOSE x \in S : \A y \in S : x <= y
Max(S) == CHOOSE x \in S : \A y \in S : x >= y

LowerChar(c) ==
  IF c \in CharsOf(UpperAlpha)
    THEN CharAt(LowerAlpha, CHOOSE i \in 1..Len(UpperAlpha) : CharAt(UpperAlpha, i) = c)
    ELSE c

RECURSIVE LowerFrom(_, _)
LowerFrom(s, i) == IF i > Len(s) THEN "" ELSE LowerChar(CharAt(s, i)) \o LowerFrom(s, i + 1)

\* Python: s.lower()
lower(s) == LowerFrom(s, 1)

\* Python: kw in s.lower(), character by character
InLower(kw, s) ==
  \E i \in 1..(Len(s) - Len(kw) + 1) :
    \A k \in 1..Len(kw) : LowerChar(CharAt(s, i + k - 1)) = CharAt(kw, k)

\* Python: sub in s
InText(sub, s) ==
  \E i \in 1..(Len(s) - Len(sub) + 1) : SubSeq(s, i, i + Len(sub) - 1) = sub

StripChars == {" ", "\""}

\* Python: s.strip(' "')
strip(s) ==
  SubSeq(s,
         Min({i \in 1..(Len(s) + 1) : i = Len(s) + 1 \/ CharAt(s, i) \notin StripChars}),
         Max({i \in 0..Len(s) : i = 0 \/ CharAt(s, i) \notin StripChars}))

(***************************************************************************)
(* generate_primekg_cypher / generate_clinicalkg_cypher.                   *)
(***************************************************************************)
general_terms ==
  {"related to", "associated with", "connected to", "linked to", "connection", "relationship"}

uses_general_term(user_query) == \E term \in general_terms : InLower(term, user_query)

\* The character class [\w\- ] of the entity regular expression.
EntityClass == CharsOf(UpperAlpha \o LowerAlpha \o Digits \o "_- ")

\* r'([\w\- ]+) and ([\w\- ]+)' with re.IGNORECASE matches with group 1 = q[s..j-1],
\* the literal " and " at q[j..j+4] and group 2 starting at q[j+5].
\* AndPositions: the places j where the literal stands between two class characters.
AndPositions(q) ==
  {j \in 2..(Len(q) - 5) :
     /\ CharAt(q, j) = " "
     /\ InLower(" and ", SubSeq(q, j, j + 4))
     /\ CharAt(q, j - 1) \in EntityClass
     /\ CharAt(q, j + 5) \in EntityClass}

\* The first position of the run of class characters that ends at position p.
RunStart(q, p) == Min({s \in 1..p : \A i \in s..p : CharAt(q, i) \in EntityClass})

\* The last position of the run of class characters that starts at position p.
RunEnd(q, p) == Max({e \in p..Len(q) : \A i \in p..e : CharAt(q, i) \in EntityClass})

\* re.findall(...)[0]: the leftmost match. Group 1 starts where the class run before
\* the first literal starts and, being greedy, ends before the last literal of that
\* run; group 2 is the rest of the class run after that literal.
EntityStart(q) == RunStart(q, Min(AndPositions(q)) - 1)

EntityAnd(q) ==
  Max({j \in AndPositions(q) : RunStart(q, j - 1) = EntityStart(q)})

\* <<>> when the list of matches is empty, else <<entity1, entity2>> after strip(' "').
entity_match(q) ==
  IF AndPositions(q) = {} THEN <<>>
  ELSE <<strip(SubSeq(q, EntityStart(q), EntityAnd(q) - 1)),
         strip(SubSeq(q, EntityAnd(q) + 5, RunEnd(q, EntityAnd(q) + 5)))>>

\* Python: entity1 and entity2 (both set and non-empty)
has_entities(q) ==
  AndPositions(q) # {} /\ entity_match(q)[1] # "" /\ entity_match(q)[2] # ""

MapStrategy(user_query) ==
  user_query \o " (map user terms to closest schema node labels/relationships, use synonyms if needed)"

BroadenStrategy(user_query) ==
  user_query \o " (broaden: treat general terms like 'related to' as any plausible relationship, use -[]-> or multiple types)"

AlternativeStrategy(user_query) ==
  user_query \o " (try alternative node labels, relationship types, and synonyms from schema)"

FallbackStrategy(user_query) ==
  user_query \o " (fallback: use the most general relationship and node label patterns)"

PrimeContainsStrategy(entity1, entity2) ==
  "Find any connections between entities using partial matching and any relationship type: "
  \o "MATCH (d1:disease), (d2:disease) "
  \o "WHERE toLower(d1.node_name) CONTAINS \"" \o lower(entity1) \o "\" "
  \o "AND toLower(d2.node_name) CONTAINS \"" \o lower(entity2) \o "\" "
  \o "MATCH (d1)-[r]-(d2) "
  \o "RETURN d1.node_name AS Disease1, d2.node_name AS Disease2, type(r) AS RelationshipType, r"

ClinicalContainsStrategy(entity1, entity2) ==
  "Find any connections between entities using partial matching and any relationship type: "
  \o "MATCH (n1), (n2) "
  \o "WHERE toLower(n1.name) CONTAINS \"" \o lower(entity1) \o "\" "
  \o "AND toLower(n2.name) CONTAINS \"" \o lower(entity2) \o "\" "
  \o "MATCH (n1)-[r]-(n2) "
  \o "RETURN n1.name AS Entity1, n2.name AS Entity2, type(r) AS RelationshipType, r"

generate_primekg_cypher(user_query, attempt) ==
  IF attempt = 0 THEN MapStrategy(user_query)
  ELSE IF (attempt = 1 \/ attempt = 2) /\ has_entities(user_query)
    THEN LET m == entity_match(user_query) IN PrimeContainsStrategy(m[1], m[2])
  ELSE IF attempt = 1 /\ uses_general_term(user_query) THEN BroadenStrategy(user_query)
  ELSE IF attempt = 2 THEN AlternativeStrategy(user_query)
  ELSE FallbackStrategy(user_query)

generate_clinicalkg_cypher(user_query, attempt) ==
  IF attempt = 0 THEN MapStrategy(user_query)
  ELSE IF (attempt = 1 \/ attempt = 2) /\ has_entities(user_query)
    THEN LET m == entity_match(user_query) IN ClinicalContainsStrategy(m[1], m[2])
  ELSE IF attempt = 1 /\ uses_general_term(user_query) THEN BroadenStrategy(user_query)
  ELSE IF attempt = 2 THEN AlternativeStrategy(user_query)
  ELSE FallbackStrategy(user_query)

Engines == {"primekg", "clinicalkg"}

\* The user queries explored.
Queries ==
  {"Which DRUG helps?",
   "flu AND gene",
   "Cell linked to flu",
   "PATIENT intake",
   "Treat ment plan",
   "hello"}

\* The generators' outputs for the explored queries and attempts, computed once.
GeneratedQueries ==
  [engine \in Engines |->
     [user_query \in Queries |->
        [attempt \in 0..(MaxMaxAttempts + 1) |->
           IF engine = "primekg" THEN generate_primekg_cypher(user_query, attempt)
           ELSE generate_clinicalkg_cypher(user_query, attempt)]]]

\* The cypher_generator argument run_primekg_query_with_retries /
\* run_clinicalkg_query_with_retries pass for their engine, applied.
cypher_generator(engine, user_query, attempt) == GeneratedQueries[engine][user_query][attempt]

(***************************************************************************)
(* The graph engine: chain.invoke({"query": cypher_query}).                *)
(* A returned value is [type, has_result, result, query]: type is the      *)
(* Python type of the value, has_result says whether the dict has the key  *)
(* "result", result is the value under that key, query the echoed input.   *)
(* An answer value is [t, v]: its Python type and its text ("" for an      *)
(* empty list of rows).                                                    *)
(***************************************************************************)
NoValue == [t |-> "none", v |-> ""]
EmptyRows == [t |-> "list", v |-> ""]
AnswerStr == [t |-> "str", v |-> "Metformin treats type 2 diabetes."]
IdkStr == [t |-> "str", v |-> "I don't know the answer."]

\* The dict {} (also the initial value of state["results"]).
EmptyDict == [type |-> "dict", has_result |-> FALSE, result |-> NoValue, query |-> ""]

\* What one engine invocation can do.
EngineOutcomes ==
  {"raise", "empty_dict", "empty_rows", "non_dict", "answer_str", "idk"}

\* The value chain.invoke returns for an outcome that returns.
InvokeValue(outcome, cypher_query) ==
  CASE outcome = "empty_dict" -> EmptyDict
    [] outcome = "empty_rows" -> [type |-> "dict", has_result |-> TRUE, result |-> EmptyRows, query |-> cypher_query]
    [] outcome = "non_dict" -> [type |-> "list", has_result |-> FALSE, result |-> NoValue, query |-> ""]
    [] outcome = "answer_str" -> [type |-> "dict", has_result |-> TRUE, result |-> AnswerStr, query |-> cypher_query]
    [] outcome = "idk" -> [type |-> "dict", has_result |-> TRUE, result |-> IdkStr, query |-> cypher_query]

\* Python truthiness of an answer value.
Truthy(value) == value.t # "none" /\ value.v # ""

\* Python: results.get("result")
GetResult(results) == IF results.has_result THEN results.result ELSE NoValue

(***************************************************************************)
(* run_kg_query_with_retries: the LangGraph START -> query_node,           *)
(* query_node -[should_retry]-> END | query_node.                          *)
(* A run is [engine, state, node, calls, outcomes]: state is the           *)
(* KGQueryState, node the graph position ("query_node", "should_retry",    *)
(* "success", "fail"), calls the number of chain.invoke calls made and     *)
(* outcomes what each of them did.                                         *)
(***************************************************************************)
initial_state(user_query, max_attempts) ==
  [user_query |-> user_query,
   attempt |-> 0,
   queries_tried |-> <<>>,
   results |-> EmptyDict,
   max_attempts |-> max_attempts]

\* graph.invoke(initial_state): the edge START -> query_node.
NewRun(engine, user_query, max_attempts) ==
  [engine |-> engine,
   state |-> initial_state(user_query, max_attempts),
   node |-> "query_node",
   calls |-> 0,
   outcomes |-> <<>>]

\* Variant of TryInvoke without the except clause: the exception leaves query_node.
TryInvokeNoExcept(outcome, cypher_query) ==
  IF outcome = "raise" THEN [raised |-> TRUE, result |-> EmptyDict]
  ELSE [raised |-> FALSE, result |-> InvokeValue(outcome, cypher_query)]

\* The try/except Exception around chain.invoke: [raised, result], raised saying
\* whether an exception leaves query_node. A raising engine call becomes the result {}.
TryInvoke(outcome, cypher_query) ==
  IF outcome = "raise" THEN [raised |-> FALSE, result |-> EmptyDict]
  ELSE [raised |-> FALSE, result |-> InvokeValue(outcome, cypher_query)]

\* Variant of query_node that generates the query for the attempt after the current one.
query_node_next_attempt(state, engine, outcome) ==
  LET cypher_query == cypher_generator(engine, state.user_query, state.attempt + 1)
  IN [state EXCEPT !.queries_tried = Append(state.queries_tried, cypher_query),
                   !.results = TryInvoke(outcome, cypher_query).result,
                   !.attempt = state.attempt + 1]

\* The state update query_node returns, merged into the state by LangGraph.
query_node(state, engine, outcome) ==
  LET cypher_query == cypher_generator(engine, state.user_query, state.attempt)
  IN [state EXCEPT !.queries_tried = Append(state.queries_tried, cypher_query),
                   !.results = TryInvoke(outcome, cypher_query).result,
                   !.attempt = state.attempt + 1]

\* Variant of should_retry with <= for <.
should_retry_off_by_one(state) ==
  IF state.results.type = "dict" /\ Truthy(GetResult(state.results)) THEN "success"
  ELSE IF state.attempt <= state.max_attempts THEN "query_node"
  ELSE "fail"

\* Variant of should_retry that tests the attempt bound before the answer.
should_retry_retry_first(state) ==
  IF state.attempt < state.max_attempts THEN "query_node"
  ELSE IF state.results.type = "dict" /\ Truthy(GetResult(state.results)) THEN "success"
  ELSE "fail"

\* Variant of should_retry that never retries.
should_retry_no_retry(state) ==
  IF state.results.type = "dict" /\ Truthy(GetResult(state.results)) THEN "success"
  ELSE "fail"

should_retry(state) ==
  IF state.results.type = "dict" /\ Truthy(GetResult(state.results)) THEN "success"
  ELSE IF state.attempt < state.max_attempts THEN "query_node"
  ELSE "fail"

\* One execution of the node query_node, engine call included. An exception that
\* leaves the node leaves graph.invoke too (node "raised").
QueryNodeStep(r, outcome) ==
  LET cypher_query == cypher_generator(r.engine, r.state.user_query, r.state.attempt)
  IN IF TryInvoke(outcome, cypher_query).raised
       THEN [r EXCEPT !.node = "raised",
                      !.calls = r.calls + 1,
                      !.outcomes = Append(r.outcomes, outcome)]
       ELSE [r EXCEPT !.state = query_node(r.state, r.engine, outcome),
                      !.node = "should_retry",
                      !.calls = r.calls + 1,
                      !.outcomes = Append(r.outcomes, outcome)]

\* The conditional edge: "success" and "fail" lead to END.
RouteStep(r) == [r EXCEPT !.node = should_retry(r.state)]

\* graph.invoke has returned the final state.
RunEnded(r) == r.node \in {"success", "fail"}

\* max_attempts: int = 3 of run_primekg_query_with_retries / run_clinicalkg_query_with_retries
DefaultMaxAttempts == 3

(***************************************************************************)
(* Vector search results and their normalisation.                          *)
(* A dict is a function over the keys it holds; None is NoneValue.         *)
(***************************************************************************)
NoneValue == "None"

\* Python: m.get(k)
Get(m, k) == IF k \in DOMAIN m THEN m[k] ELSE NoneValue

PayloadKinds ==
  {"full", "empty_page_content", "no_page_content", "no_readable_filename", "old_schema"}

FullKeys ==
  {"page_content", "readable_filename", "course_name", "s3_path", "pagenumber", "url",
   "base_url", "doc_groups"}

\* A "full" payload holds both page keys; an "old_schema" payload holds
\* pagenumber_or_timestamp only and lacks some optional keys.
PayloadKeys(kind) ==
  CASE kind = "full" -> FullKeys \cup {"pagenumber_or_timestamp"}
    [] kind = "old_schema" ->
         (FullKeys \ {"pagenumber", "url", "doc_groups"}) \cup {"pagenumber_or_timestamp"}
    [] kind = "empty_page_content" -> FullKeys
    [] kind = "no_page_content" -> FullKeys \ {"page_content"}
    [] kind = "no_readable_filename" -> FullKeys \ {"readable_filename"}

\* The value chunk i holds under key k.
ChunkField(k, i) == k \o "-" \o CharAt(Digits, i + 1)

\* One point returned by the vector database: its rank i and its payload.
ScoredPoint(kind, i) ==
  [id |-> i,
   payload |-> [k \in PayloadKeys(kind) |->
                  IF kind = "empty_page_content" /\ k = "page_content" THEN ""
                  ELSE ChunkField(k, i)]]

\* The lists the vector database may return, in its own (score) order.
SearchResultLists ==
  UNION {{[i \in 1..n |-> ScoredPoint(kinds[i], i)] : kinds \in [1..n -> PayloadKinds]} :
           n \in 0..MaxChunks}

\* The body of the try in _process_search_results raises for d (KeyError on page_content).
ProcessRaises(d) == "page_content" \notin DOMAIN d.payload

Processable(d) == ~ProcessRaises(d)

\* Variant of DocumentOf that takes pagenumber_or_timestamp whenever it is present.
DocumentOfPreferTimestamp(d) ==
  LET rest == [k \in (DOMAIN d.payload) \ {"page_content"} |-> d.payload[k]]
      metadata ==
        IF "pagenumber_or_timestamp" \in DOMAIN rest
          THEN [k \in (DOMAIN rest) \cup {"pagenumber"} |->
                  IF k = "pagenumber" THEN rest["pagenumber_or_timestamp"] ELSE rest[k]]
          ELSE rest
  IN [page_content |-> d.payload["page_content"], metadata |-> metadata]

\* The Document built from d: page_content removed from the metadata, pagenumber
\* filled from pagenumber_or_timestamp when absent.
DocumentOf(d) ==
  LET rest == [k \in (DOMAIN d.payload) \ {"page_content"} |-> d.payload[k]]
      metadata ==
        IF "pagenumber" \notin DOMAIN rest /\ "pagenumber_or_timestamp" \in DOMAIN rest
          THEN [k \in (DOMAIN rest) \cup {"pagenumber"} |->
                  IF k = "pagenumber" THEN rest["pagenumber_or_timestamp"] ELSE rest[k]]
          ELSE rest
  IN [page_content |-> d.payload["page_content"], metadata |-> metadata]

\* A point whose processing raises is logged and skipped.
process_search_results(results) ==
  LET kept == SelectSeq(results, Processable)
  IN [i \in 1..Len(kept) |-> DocumentOf(kept[i])]

ItemKeys ==
  {"text", "readable_filename", "course_name ", "s3_path", "pagenumber", "url", "base_url",
   "doc_groups"}

\* doc.metadata["readable_filename"] / ["course_name"] raise KeyError when absent.
FormatRaises(doc) == ~({"readable_filename", "course_name"} \subseteq DOMAIN doc.metadata)

FormatDoc(doc) ==
  [k \in ItemKeys |->
     CASE k = "text" -> doc.page_content
       [] k = "readable_filename" -> doc.metadata["readable_filename"]
       [] k = "course_name " -> doc.metadata["course_name"]
       [] OTHER -> Get(doc.metadata, k)]

\* [raised, value]: the list comprehension raises as soon as one document does.
format_for_json(found_docs) ==
  IF \E i \in 1..Len(found_docs) : FormatRaises(found_docs[i])
    THEN [raised |-> TRUE, value |-> <<>>]
    ELSE [raised |-> FALSE, value |-> [i \in 1..Len(found_docs) |-> FormatDoc(found_docs[i])]]

(***************************************************************************)
(* The Relevance Router.                                                   *)
(***************************************************************************)
primekg_keywords ==
  {"disease", "drug", "gene", "symptom", "side effect", "treatment", "primekg", "cell"}

clinical_kg_keywords ==
  {"patient", "symptom", "diagnosis", "treatment", "clinical", "disease", "drug", "gene",
   "side effect"}

\* Variant of should_query_primekg that looks for the keywords in the query as typed.
should_query_primekg_as_typed(search_query) ==
  \E kw \in primekg_keywords : InText(kw, search_query)

should_query_primekg(search_query) == \E kw \in primekg_keywords : InLower(kw, search_query)

should_query_clinical_kg(search_query) ==
  \E kw \in clinical_kg_keywords : InLower(kw, search_query)

\* Variant of should_query that sends every query to the engine.
should_query_always(engine, search_query) == engine \in Engines

\* The should_query_fn getTopContexts passes to get_kg_context for the engine.
should_query(engine, search_query) ==
  IF engine = "primekg" THEN should_query_primekg(search_query)
  ELSE should_query_clinical_kg(search_query)

(***************************************************************************)
(* getPrimeKGContexts / getKnowledgeGraphContexts: the post-processing of  *)
(* the final retry state and the Summarizer call.                          *)
(***************************************************************************)
SummarizerOutcomes == {"summary", "empty", "raise"}

\* response.choices[0].message.content.strip() for a call that returns.
SummaryText(outcome, user_query) ==
  IF outcome = "summary" THEN "Key findings for: " \o user_query ELSE ""

\* "i don't know the answer" in result_text.lower(), for the answer texts the engine
\* returns, computed once.
IdkInLower ==
  [text \in {AnswerStr.v, IdkStr.v} |-> InLower("i don't know the answer", text)]

\* Variant of IsIdk that looks for the phrase in the answer as the engine wrote it.
IsIdkAsTyped(value) == value.t = "str" /\ InText("i don't know the answer", value.v)

\* isinstance(result_text, str) and "i don't know the answer" in result_text.lower()
IsIdk(value) == value.t = "str" /\ IdkInLower[value.v]

\* isinstance(results_obj, dict) and "result" in results_obj
HasResultKey(results) == results.type = "dict" /\ results.has_result

\* Whether the method calls generate_openai_summary for this final state.
CallsSummarizer(state) == HasResultKey(state.results) /\ ~IsIdk(state.results.result)

ReadableName(engine) == IF engine = "primekg" THEN "PrimeKG" ELSE "ClinicalKG"

GraphItemKeys(engine) ==
  {"text", "kg_result", "readable_filename", "course_name", "s3_path", "pagenumber", "url",
   "base_url", "doc_groups"}
  \cup (IF engine = "clinicalkg" THEN {"clinicalkg_intermediate_steps", "clinicalkg_query"} ELSE {})

\* The dict both methods build after a Summarizer call that returned summary.
GraphItem(engine, state, course_name, summary) ==
  [k \in GraphItemKeys(engine) |->
     CASE k = "text" -> summary
       [] k = "kg_result" -> state.results.result.v
       [] k = "readable_filename" -> ReadableName(engine)
       [] k = "course_name" -> (IF engine = "clinicalkg" THEN course_name ELSE NoneValue)
       [] k = "clinicalkg_query" -> state.results.query
       [] OTHER -> NoneValue]

NullItem == [k \in {"text"} |-> ""]

\* Variant of kg_fn whose except clause returns its message under the key "text".
kg_fn_error_text(engine, r, course_name, summarizer) ==
  IF r.node = "raised" THEN [kind |-> "error", item |-> NullItem]
  ELSE IF ~HasResultKey(r.state.results) THEN [kind |-> "state", item |-> NullItem]
  ELSE IF IsIdk(r.state.results.result) THEN [kind |-> "empty", item |-> NullItem]
  ELSE IF summarizer = "raise"
    THEN [kind |-> "item",
          item |-> GraphItem(engine, r.state, course_name,
                             "An error occurred while processing your knowledge graph query.")]
  ELSE [kind |-> "item",
        item |-> GraphItem(engine, r.state, course_name,
                           SummaryText(summarizer, r.state.user_query))]

\* What kg_fn returns to get_kg_context: [kind, item]. kind "item" is the dict
\* above; "empty" is {}; "state" is the retry state itself (no key "text"); "error"
\* is the dict of the except clause (no key "text").
kg_fn(engine, r, course_name, summarizer) ==
  IF r.node = "raised" THEN [kind |-> "error", item |-> NullItem]
  ELSE IF ~HasResultKey(r.state.results) THEN [kind |-> "state", item |-> NullItem]
  ELSE IF IsIdk(r.state.results.result) THEN [kind |-> "empty", item |-> NullItem]
  ELSE IF summarizer = "raise" THEN [kind |-> "error", item |-> NullItem]
  ELSE [kind |-> "item",
        item |-> GraphItem(engine, r.state, course_name,
                           SummaryText(summarizer, r.state.user_query))]

\* get_kg_context: result and isinstance(result, dict) and result.get("text")
KeepsContext(result) == result.kind = "item" /\ result.item["text"] # ""


(***************************************************************************)
(* State of getTopContexts.                                                *)
(***************************************************************************)
Lookups == {"getDisabledDocGroups", "getPublicDocGroups", "embed_query"}

\* The course of the request (it selects the embedding client and the collection).
Courses == {"vyriad"}

\* A get_kg_context coroutine: stage "none" (not created), "router", "thread" (kg_fn
\* runs in asyncio.to_thread), "done"; run is its retry run, summarizer_calls the
\* number of generate_openai_summary calls, has_context/context what it returned.
NoRun(engine) ==
  [engine |-> engine, state |-> initial_state("", DefaultMaxAttempts), node |-> "none",
   calls |-> 0, outcomes |-> <<>>]

KgNotCreated ==
  [e \in Engines |->
     [stage |-> "none", run |-> NoRun(e), status |-> "none", summarizer_calls |-> 0,
      summarizer_raised |-> FALSE, has_context |-> FALSE, context |-> NullItem,
      calls_at_cancel |-> 0]]

NoReturn == [kind |-> "none", items |-> <<>>, cause |-> "", text |-> ""]

\* The concurrent getTopContexts calls on one RetrievalService, and the latencies a
\* call can measure (0: not measured / attribute not set yet).
Requests == 1..MaxRequests
Latencies == 1..MaxLatency
NoLatency == 0

\* __init__ sets neither latency attribute.
NewService == [openai_embedding_latency |-> NoLatency, qdrant_latency_sec |-> NoLatency]

NoRequests ==
  [r \in Requests |->
     [pc |-> "start", embed_measured |-> NoLatency, search_measured |-> NoLatency,
      reported_embed |-> NoLatency, reported_search |-> NoLatency]]

\* State of the latency fields while no concurrent requests are modelled.
LatencyIdle == svc = NewService /\ lat = NoRequests

\* State of the orchestrator while no request is modelled (RetrySpec).
OrchIdle ==
  /\ req = [search_query |-> "", course_name |-> ""]
  /\ pc = "idle"
  /\ tasks = [t \in Lookups |-> "idle"]
  /\ search_results = <<>>
  /\ formatted = <<>>
  /\ kg = KgNotCreated
  /\ events = <<>>
  /\ ret = NoReturn
  /\ LatencyIdle

(***************************************************************************)
(* BaseMultiProcessor: the output file and the pool of one call of run.    *)
(* A line of the output file is [kind, id]: kind "done" is a JSON object   *)
(* with an "id" for which _is_item_processed is true, "partial" one for    *)
(* which it is false, "corrupt" a line json.loads rejects (id 0).          *)
(***************************************************************************)
Ids == 1..MaxItems
Workers == 1..MaxWorkers
NoWorker == 0

CorruptLine == [kind |-> "corrupt", id |-> 0]

Lines == [kind : {"done", "partial"}, id : Ids] \cup {CorruptLine}

\* The contents the output file may have when run is called.
OutputFiles == UNION {[1..n -> Lines] : n \in 0..MaxRecords}

\* json.loads(line) returns.
Decodable(line) == line.kind # "corrupt"

\* The subclass's _is_item_processed, on a decoded line.
is_item_processed(item) == item.kind = "done"

\* The lines both readers of the output file keep.
ValidLine(line) == Decodable(line) /\ is_item_processed(line)

\* Variant of get_processed_ids that finds no processed id.
get_processed_ids_ignored(exists, file) == {}

\* _get_processed_ids: the ids of the valid lines of the file, {} without a file.
get_processed_ids(exists, file) ==
  IF ~exists THEN {}
  ELSE {file[i].id : i \in {j \in 1..Len(file) : ValidLine(file[j])}}

\* valid_items_by_id.values(): one entry per id, at the place of the id's first valid
\* line, holding the id's last valid line.
RECURSIVE ValuesById(_, _, _)
ValuesById(valid, i, seen) ==
  IF i > Len(valid) THEN <<>>
  ELSE IF valid[i].id \in seen THEN ValuesById(valid, i + 1, seen)
  ELSE LET last == Max({j \in i..Len(valid) : valid[j].id = valid[i].id})
       IN <<valid[last]>> \o ValuesById(valid, i + 1, seen \cup {valid[i].id})

\* The file _cleanup_and_summarize_output moves over the output file.
cleanup_output(file) == ValuesById(SelectSeq(file, ValidLine), 1, {})

\* What _process_item_logic does for an item: it raises, returns None, or returns a
\* processed item for which _is_item_processed is true ("done") or false ("partial").
LogicOutcomes == {"raise", "none", "done", "partial"}

IdleWorker == [pc |-> "idle", id |-> 0, out |-> "none"]

\* No call of run is modelled.
NoProcessor ==
  [pc |-> "idle", source |-> {}, exists |-> FALSE, file |-> <<>>, exists0 |-> FALSE,
   file0 |-> <<>>, todo |-> {}, worker |-> [w \in Workers |-> IdleWorker],
   lock |-> NoWorker, calls |-> [i \in Ids |-> 0], outcome |-> [i \in Ids |-> "unprocessed"]]

MultiIdle == mp = NoProcessor

(***************************************************************************)
(* RetrySpec: one call run_kg_query_with_retries(user_query, chain,        *)
(* cypher_generator, max_attempts) against an engine that may do anything  *)
(* on each invocation.                                                     *)
(***************************************************************************)
RetryInit ==
  /\ \E engine \in Engines, user_query \in Queries, max_attempts \in 0..MaxMaxAttempts :
       run = NewRun(engine, user_query, max_attempts)
  /\ OrchIdle
  /\ MultiIdle

RetryQueryNode ==
  /\ run.node = "query_node"
  /\ \E outcome \in EngineOutcomes : run' = QueryNodeStep(run, outcome)
  /\ UNCHANGED orchVars

RetryRoute ==
  /\ run.node = "should_retry"
  /\ run' = RouteStep(run)
  /\ UNCHANGED orchVars

RetryNext == RetryQueryNode \/ RetryRoute

RetrySpec == RetryInit /\ [][RetryNext]_vars

\* Each engine invocation returns or raises, and LangGraph then runs the next step.
RetryFairSpec == RetrySpec /\ WF_vars(RetryNext)


(***************************************************************************)
(* Properties of the retry runner (checked under RetrySpec / RetryFairSpec)*)
(***************************************************************************)
\* The engine returned no non-empty answer: it raised, or returned a value that is not
\* a dict with a non-empty "result".
NonAnswer(outcome) == outcome \in {"raise", "empty_dict", "empty_rows", "non_dict"}

AllNonAnswers(r) == \A i \in 1..Len(r.outcomes) : NonAnswer(r.outcomes[i])

\* C1: for max_attempts >= 1, when every engine invocation returns an empty answer or
\* raises, the run never makes more than max_attempts invocations and, once ended, has
\* made exactly max_attempts of them, ended in "fail", and its state has
\* attempt = max_attempts and len(queries_tried) = max_attempts.
C1_Exhaustion ==
  (run.state.max_attempts >= 1 /\ AllNonAnswers(run)) =>
    /\ run.calls <= run.state.max_attempts
    /\ run.node \notin {"success", "raised"}
    /\ (run.node \in {"fail", "success"} =>
          /\ run.node = "fail"
          /\ run.calls = run.state.max_attempts
          /\ run.state.attempt = run.state.max_attempts
          /\ Len(run.state.queries_tried) = run.state.max_attempts)

C1_Witness ==
  /\ run.node = "fail"
  /\ run.state.max_attempts = 3
  /\ run.calls = 3
  /\ run.outcomes = <<"empty_rows", "raise", "empty_dict">>

\* C2: if the first non-empty answer comes at attempt index k < max_attempts, the run
\* ends in "success" with attempt = k+1, len(queries_tried) = k+1 and k+1 invocations,
\* its results are the value that invocation returned for the query of attempt k, and
\* no invocation follows it; an attempt starts only after every earlier attempt
\* returned an empty answer.
C2_StateAfterAnswer ==
  LET n == Len(run.outcomes)
  IN /\ \A i \in 1..(n - 1) : NonAnswer(run.outcomes[i])
     /\ (n >= 1 /\ n <= run.state.max_attempts /\ ~NonAnswer(run.outcomes[n])
           /\ run.node # "should_retry") =>
          /\ run.node = "success"
          /\ run.state.attempt = n
          /\ Len(run.state.queries_tried) = n
          /\ run.calls = n
          /\ run.state.results =
               InvokeValue(run.outcomes[n],
                           cypher_generator(run.engine, run.state.user_query, n - 1))

C2_EarlySuccess ==
  /\ []C2_StateAfterAnswer
  /\ [][(run.outcomes # <<>> /\ ~NonAnswer(run.outcomes[Len(run.outcomes)]))
          => run'.calls = run.calls]_vars

C2_Witness ==
  /\ run.node = "success"
  /\ run.state.max_attempts > 3
  /\ run.state.attempt = 3
  /\ Len(run.state.queries_tried) = 3
  /\ run.outcomes = <<"empty_dict", "non_dict", "answer_str">>

\* C3: the number of engine invocations of one run never exceeds max_attempts, for
\* every max_attempts >= 0.
C3_HardCeiling == run.calls <= run.state.max_attempts

\* C4: an exception raised by chain.invoke never leaves the runner; the attempt is
\* recorded with the empty result {}, its generated query is appended to
\* queries_tried, attempt is incremented, and the route taken next is the one taken
\* for an empty answer (retry while attempt < max_attempts, else fail).
C4_StateAfterRaise ==
  /\ run.node # "raised"
  /\ (run.outcomes # <<>> /\ run.outcomes[Len(run.outcomes)] = "raise") =>
       LET n == Len(run.outcomes)
       IN /\ run.state.results = EmptyDict
          /\ run.state.attempt = n
          /\ Len(run.state.queries_tried) = n
          /\ run.state.queries_tried[n] =
               cypher_generator(run.engine, run.state.user_query, n - 1)
          /\ run.node \in {"should_retry", "query_node", "fail"}
          /\ (run.node = "query_node" <=> (run.node # "should_retry" /\ n < run.state.max_attempts))

C4_ExceptionNotPropagated ==
  /\ []C4_StateAfterRaise
  /\ [][(run.node = "query_node" /\ run'.outcomes = Append(run.outcomes, "raise"))
          => /\ run'.state.attempt = run.state.attempt + 1
             /\ Len(run'.state.queries_tried) = Len(run.state.queries_tried) + 1
             /\ run'.node = "should_retry"]_vars

C4_Witness ==
  /\ run.node = "query_node"
  /\ run.state.attempt = 2
  /\ run.outcomes = <<"raise", "raise">>
  /\ run.state.results = EmptyDict

\* C5: in every state of the loop len(queries_tried) = attempt and queries_tried[i]
\* is the generator's output for (user_query, i), in attempt order, also in the
\* terminal state; no step changes user_query or max_attempts.
C5_HistoryState ==
  /\ Len(run.state.queries_tried) = run.state.attempt
  /\ \A i \in 0..(run.state.attempt - 1) :
       run.state.queries_tried[i + 1] = cypher_generator(run.engine, run.state.user_query, i)

C5_History ==
  /\ []C5_HistoryState
  /\ [][/\ run'.state.user_query = run.state.user_query
        /\ run'.state.max_attempts = run.state.max_attempts]_vars

C5_Witness ==
  /\ run.node = "fail"
  /\ run.engine = "clinicalkg"
  /\ run.state.user_query = "flu AND gene"
  /\ Len(run.state.queries_tried) = 4
  /\ run.state.queries_tried[2] = ClinicalContainsStrategy("flu", "gene")
  /\ run.state.queries_tried[4] = FallbackStrategy("flu AND gene")

\* C6: every run eventually ends in "success" or "fail"; it is in "fail" only with
\* attempt >= max_attempts and a last invocation that gave no non-empty answer; and
\* after an iteration it goes back to query_node only with attempt < max_attempts.
C6_Termination ==
  /\ <>RunEnded(run)
  /\ [](run.node = "fail" =>
          /\ run.state.attempt >= run.state.max_attempts
          /\ NonAnswer(run.outcomes[Len(run.outcomes)]))
  /\ []((run.node = "query_node" /\ run.calls > 0) =>
          run.state.attempt < run.state.max_attempts)

C6_Witness ==
  /\ run.node = "fail"
  /\ run.state.max_attempts = 2
  /\ run.state.attempt = 2
  /\ run.outcomes = <<"empty_rows", "non_dict">>


(***************************************************************************)
(* Spec: one call getTopContexts(search_query, course_name).               *)
(* pc is the position of the coroutine: "start", "gather" (awaiting the    *)
(* three lookups), "vector_search", "vdb", "search_succeeded",             *)
(* "success_event", "kg_gather" (awaiting both get_kg_context), "done".    *)
(***************************************************************************)
\* What one engine invocation can do in a request.
RequestEngineOutcomes == {"raise", "empty_rows", "answer_str", "idk"}

Init ==
  /\ run = NoRun("primekg")
  /\ \E q \in Queries, c \in Courses : req = [search_query |-> q, course_name |-> c]
  /\ pc = "start"
  /\ tasks = [t \in Lookups |-> "idle"]
  /\ search_results = <<>>
  /\ formatted = <<>>
  /\ kg = KgNotCreated
  /\ events = <<>>
  /\ ret = NoReturn
  /\ LatencyIdle
  /\ MultiIdle

\* The places of getTopContexts whose exception reaches its except clause.
Causes == {"lookup", "telemetry", "vector_search", "format_for_json"}

\* str(e) of the exception of each place; format_for_json raises KeyError, whose
\* text is the repr of the missing key.
ExceptionText ==
  [c \in Causes |->
     IF c = "format_for_json" THEN "'readable_filename'" ELSE c \o " failed"]

\* The f-string of the except clause; traceback.print_exc is formatted, not called.
err(course_name, search_query, e) ==
  "ERROR: In /getTopContexts. Course: " \o course_name \o " ||| search_query: "
    \o search_query \o "\nTraceback: <function print_exc> \n" \o e

\* Variant of ReturnError that lets the exception leave getTopContexts.
ReturnErrorPropagates(cause) ==
  /\ ret' = [kind |-> "raised", items |-> <<>>, cause |-> cause, text |-> ""]
  /\ pc' = "done"

\* The except clause of getTopContexts: the error string is returned.
ReturnError(cause) ==
  /\ ret' = [kind |-> "error", items |-> <<>>, cause |-> cause,
             text |-> err(req.course_name, req.search_query, ExceptionText[cause])]
  /\ pc' = "done"

ReturnList(items) ==
  /\ ret' = [kind |-> "list", items |-> items, cause |-> "", text |-> ""]
  /\ pc' = "done"

\* Variant of KgAtSubmit that creates both get_kg_context coroutines with the lookups.
KgAtSubmitCreated == [e \in Engines |-> [KgNotCreated[e] EXCEPT !.stage = "router"]]

\* The coroutines that exist once the three lookups are submitted: no graph path.
KgAtSubmit == KgNotCreated

\* primekg_task / clinicalkg_task handed to asyncio.gather.
KgCreated == [e \in Engines |-> [KgNotCreated[e] EXCEPT !.stage = "router"]]

\* The three run_in_executor submissions.
SubmitLookups ==
  /\ pc = "start"
  /\ tasks' = [t \in Lookups |-> "running"]
  /\ kg' = KgAtSubmit
  /\ pc' = "gather"
  /\ UNCHANGED <<run, svc, lat, mp, req, search_results, formatted, events, ret>>

\* One lookup returns or raises in its pool thread.
LookupFinish(t) ==
  /\ tasks[t] = "running"
  /\ \E ok \in BOOLEAN : tasks' = [tasks EXCEPT ![t] = IF ok THEN "ok" ELSE "failed"]
  /\ UNCHANGED <<run, svc, lat, mp, req, pc, search_results, formatted, kg, events, ret>>

\* Variant of GatherReturns that goes on as soon as the embedding is there.
GatherReturnsOnEmbedding ==
  /\ pc = "gather"
  /\ tasks["embed_query"] = "ok"
  /\ pc' = "vector_search"
  /\ UNCHANGED <<run, svc, lat, mp, req, tasks, search_results, formatted, kg, events, ret>>

\* await asyncio.gather(*tasks) returns the three results.
GatherReturns ==
  /\ pc = "gather"
  /\ \A t \in Lookups : tasks[t] = "ok"
  /\ pc' = "vector_search"
  /\ UNCHANGED <<run, svc, lat, mp, req, tasks, search_results, formatted, kg, events, ret>>

\* await asyncio.gather(*tasks) raises the exception of a failed lookup.
GatherRaises ==
  /\ pc = "gather"
  /\ \E t \in Lookups : tasks[t] = "failed"
  /\ ReturnError("lookup")
  /\ UNCHANGED <<run, svc, lat, mp, req, tasks, search_results, formatted, kg, events>>

\* vector_search up to _capture_search_invoked_event.
VectorSearchInvoked ==
  /\ pc = "vector_search"
  /\ \E telemetry_ok \in BOOLEAN :
       IF telemetry_ok
         THEN /\ events' = Append(events, "vector_search_invoked")
              /\ pc' = "vdb"
              /\ UNCHANGED ret
         ELSE /\ ReturnError("telemetry")
              /\ UNCHANGED events
  /\ UNCHANGED <<run, svc, lat, mp, req, tasks, search_results, formatted, kg>>

\* Variant of VdbSearch that turns a raising call into an empty result.
VdbSearchSwallowsError ==
  /\ pc = "vdb"
  /\ \/ \E results \in SearchResultLists :
          /\ search_results' = results
          /\ pc' = "search_succeeded"
          /\ UNCHANGED ret
     \/ /\ ReturnList(<<>>)
        /\ UNCHANGED search_results
  /\ UNCHANGED <<run, svc, lat, mp, req, tasks, formatted, kg, events>>

\* The call of the vector database.
VdbSearch ==
  /\ pc = "vdb"
  /\ \/ \E results \in SearchResultLists :
          /\ search_results' = results
          /\ pc' = "search_succeeded"
          /\ UNCHANGED ret
     \/ /\ ReturnError("vector_search")
        /\ UNCHANGED search_results
  /\ UNCHANGED <<run, svc, lat, mp, req, tasks, formatted, kg, events>>

\* _process_search_results, _capture_search_succeeded_event, and getTopContexts up to
\* the return of [] for no valid document.
SearchSucceeded ==
  /\ pc = "search_succeeded"
  /\ \E telemetry_ok \in BOOLEAN :
       IF ~telemetry_ok
         THEN /\ ReturnError("telemetry")
              /\ UNCHANGED events
         ELSE /\ events' = Append(events, "vector_search_succeeded")
              /\ IF Len(process_search_results(search_results)) = 0
                   THEN ReturnList(<<>>)
                   ELSE pc' = "success_event" /\ UNCHANGED ret
  /\ UNCHANGED <<run, svc, lat, mp, req, tasks, search_results, formatted, kg>>

\* The success event, format_for_json, and the creation of the two graph coroutines.
SuccessEvent ==
  /\ pc = "success_event"
  /\ \E telemetry_ok \in BOOLEAN :
       LET f == format_for_json(process_search_results(search_results))
       IN IF ~telemetry_ok
            THEN /\ ReturnError("telemetry")
                 /\ UNCHANGED <<events, formatted, kg>>
            ELSE /\ events' = Append(events, "getTopContexts_success_DI")
                 /\ IF f.raised
                      THEN /\ ReturnError("format_for_json")
                           /\ UNCHANGED <<formatted, kg>>
                      ELSE /\ formatted' = f.value
                           /\ kg' = KgCreated
                           /\ pc' = "kg_gather"
                           /\ UNCHANGED ret
  /\ UNCHANGED <<run, svc, lat, mp, req, tasks, search_results>>

\* get_kg_context evaluates should_query_fn and hands kg_fn to asyncio.to_thread.
KgRouter(e) ==
  /\ kg[e].stage = "router"
  /\ kg' = [kg EXCEPT ![e] =
              IF should_query(e, req.search_query)
                THEN [@ EXCEPT !.stage = "thread",
                               !.run = NewRun(e, req.search_query, DefaultMaxAttempts)]
                ELSE [@ EXCEPT !.stage = "done"]]
  /\ UNCHANGED <<run, svc, lat, mp, req, pc, tasks, search_results, formatted, events, ret>>

\* One iteration of the retry loop in the thread of engine e. The KGQueryState holds
\* the latest result only: the record of earlier outcomes is not kept here.
KgAttempt(e) ==
  /\ kg[e].stage = "thread"
  /\ kg[e].run.node = "query_node"
  /\ \E outcome \in RequestEngineOutcomes :
       LET r == QueryNodeStep(kg[e].run, outcome)
           n == IF r.node = "raised" THEN r ELSE RouteStep(r)
       IN kg' = [kg EXCEPT ![e].run = [n EXCEPT !.outcomes = <<>>]]
  /\ UNCHANGED <<run, svc, lat, mp, req, pc, tasks, search_results, formatted, events, ret>>

\* The rest of kg_fn after the retry run, and the test get_kg_context makes on it.
\* The thread's final state is gone when kg_fn returns; status keeps how the run ended.
\* A cancelled get_kg_context does not receive the result of its thread.
KgReturn(e) ==
  /\ kg[e].stage = "thread"
  /\ kg[e].run.node \in {"success", "fail", "raised"}
  /\ \E summarizer \in SummarizerOutcomes :
       LET result == kg_fn(e, kg[e].run, req.course_name, summarizer)
           called == kg[e].run.node # "raised" /\ CallsSummarizer(kg[e].run.state)
           received == ret.kind # "cancelled"
       IN kg' = [kg EXCEPT ![e] =
                   [@ EXCEPT !.stage = "done",
                             !.run = NoRun(e),
                             !.status = kg[e].run.node,
                             !.summarizer_calls = @ + (IF called THEN 1 ELSE 0),
                             !.summarizer_raised = called /\ summarizer = "raise",
                             !.calls_at_cancel = 0,
                             !.has_context = received /\ KeepsContext(result),
                             !.context = IF received /\ KeepsContext(result)
                                           THEN result.item ELSE NullItem]]
  /\ UNCHANGED <<run, svc, lat, mp, req, pc, tasks, search_results, formatted, events, ret>>

\* Variant of GraphContexts that appends the ClinicalKG context first.
GraphContextsClinicalFirst(k) ==
  (IF k["clinicalkg"].has_context THEN <<k["clinicalkg"].context>> ELSE <<>>)
  \o (IF k["primekg"].has_context THEN <<k["primekg"].context>> ELSE <<>>)

\* The contexts appended after asyncio.gather(primekg_task, clinicalkg_task).
GraphContexts(k) ==
  (IF k["primekg"].has_context THEN <<k["primekg"].context>> ELSE <<>>)
  \o (IF k["clinicalkg"].has_context THEN <<k["clinicalkg"].context>> ELSE <<>>)

\* Both coroutines have returned: the appends and the return.
MergeKg ==
  /\ pc = "kg_gather"
  /\ \A e \in Engines : kg[e].stage = "done"
  /\ formatted' = formatted \o GraphContexts(kg)
  /\ ReturnList(formatted')
  /\ UNCHANGED <<run, svc, lat, mp, req, tasks, search_results, kg, events>>

\* The task running getTopContexts is cancelled while it is suspended at one of its
\* two awaits. CancelledError is not an Exception: the except clause does not catch
\* it. asyncio.gather cancels its children: a get_kg_context that has not run yet
\* never runs; a thread started by asyncio.to_thread is not interrupted.
\* calls_at_cancel notes how many engine calls each run had made by then.
Cancel ==
  /\ pc \in {"gather", "kg_gather"}
  /\ pc' = "done"
  /\ ret' = [kind |-> "cancelled", items |-> <<>>, cause |-> "", text |-> ""]
  /\ kg' = [e \in Engines |->
              IF kg[e].stage = "router" THEN [kg[e] EXCEPT !.stage = "cancelled"]
              ELSE [kg[e] EXCEPT !.calls_at_cancel = kg[e].run.calls]]
  /\ UNCHANGED <<run, svc, lat, mp, req, tasks, search_results, formatted, events>>

Next ==
  \/ SubmitLookups
  \/ \E t \in Lookups : LookupFinish(t)
  \/ GatherReturns
  \/ GatherRaises
  \/ VectorSearchInvoked
  \/ VdbSearch
  \/ SearchSucceeded
  \/ SuccessEvent
  \/ \E e \in Engines : KgRouter(e)
  \/ \E e \in Engines : KgAttempt(e)
  \/ \E e \in Engines : KgReturn(e)
  \/ MergeKg
  \/ Cancel

Spec == Init /\ [][Next]_vars


(***************************************************************************)
(* Properties of getTopContexts (Spec).                                    *)
(***************************************************************************)
\* The lookups, the embedding and the vector search of the request succeeded and the
\* request is over; search_results holds what the vector database returned.
VectorStageSucceeded ==
  /\ pc = "done"
  /\ ret.kind # "cancelled"
  /\ ret.cause \notin {"lookup", "vector_search", "telemetry"}
  /\ "vector_search_succeeded" \in {events[i] : i \in 1..Len(events)}

\* The permission/embedding/vector-search stage of the request is in progress.
VectorStageInProgress == pc \in {"gather", "vector_search", "vdb", "search_succeeded"}

\* C7: when the lookups, the embedding and the vector search succeed and the search
\* returns K >= 1 chunks, the request returns a list whose first K entries are those K
\* chunks in the order returned: none dropped, none reordered, no error for a bad chunk.
C7_VectorChunksFirst ==
  (VectorStageSucceeded /\ Len(search_results) >= 1) =>
     /\ ret.kind = "list"
     /\ Len(ret.items) >= Len(search_results)
     /\ \A i \in 1..Len(search_results) :
          "page_content" \in DOMAIN search_results[i].payload =>
             ret.items[i]["text"] = search_results[i].payload["page_content"]

\* C8: when the vector search returns zero chunks and the router signals route for an
\* engine, the request does not return before that engine's retry runner has been invoked.
C8_GraphPathAfterEmptySearch ==
  \A e \in Engines :
     (VectorStageSucceeded /\ Len(search_results) = 0 /\ should_query(e, req.search_query)) =>
        kg[e].status \in {"success", "fail"}

\* C9: an engine contributes a graph item, and the Summarizer is called for it, only if
\* its retry run ended in success; a run that ended in fail with an empty structured
\* answer contributes nothing and calls no Summarizer.
C9_GraphItemOnlyOnSuccess ==
  \A e \in Engines :
     (kg[e].has_context \/ kg[e].summarizer_calls > 0) => kg[e].status = "success"

PastLookups ==
  \/ pc \in {"vector_search", "vdb", "search_succeeded", "success_event", "kg_gather"}
  \/ events # <<>>
  \/ search_results # <<>>
  \/ \E e \in Engines : kg[e].stage # "none" \/ kg[e].run.calls > 0

\* C11: the vector search starts only after the two doc-group lookups and the query
\* embedding have all completed successfully; if one of them fails the request returns
\* the failure value and neither the vector database nor a graph engine is called.
C11_LookupsBeforeVectorSearch ==
  /\ PastLookups => \A t \in Lookups : tasks[t] = "ok"
  /\ (\E t \in Lookups : tasks[t] = "failed") =>
       /\ pc \in {"gather", "done"}
       /\ ~PastLookups
       /\ (pc = "done" /\ ret.kind # "cancelled") => (ret.kind = "error" /\ ret.cause = "lookup")

\* The disabled-groups lookup failed while the embedding succeeded, and the request
\* has returned the failure value.
C11_Witness ==
  /\ pc = "done"
  /\ ret.kind = "error"
  /\ ret.cause = "lookup"
  /\ tasks["getDisabledDocGroups"] = "failed"
  /\ tasks["embed_query"] = "ok"


\* The request went into the graph paths and has returned.
ReturnedAfterGraphPaths ==
  /\ pc = "done"
  /\ ret.kind # "cancelled"
  /\ \E e \in Engines : kg[e].stage # "none"

\* The items format_for_json built from the chunks the vector search kept.
VectorItems == format_for_json(process_search_results(search_results)).value

\* The items of a returned list that come from engine e.
ItemsOf(e) ==
  {i \in 1..Len(ret.items) :
     "kg_result" \in DOMAIN ret.items[i] /\ ret.items[i]["readable_filename"] = ReadableName(e)}

\* C12: a failure on one graph path (every attempt raising, exhaustion, the Summarizer
\* raising) never makes the request return an error and removes no other source: the
\* list holds every vector item and the item of the other engine when it has one; the
\* path whose Summarizer raised contributes none.
C12_GraphFailureIsolated ==
  ReturnedAfterGraphPaths =>
    /\ ret.kind = "list"
    /\ Len(ret.items) >= Len(VectorItems)
    /\ SubSeq(ret.items, 1, Len(VectorItems)) = VectorItems
    /\ \A e \in Engines :
         /\ kg[e].has_context => \E i \in ItemsOf(e) : ret.items[i] = kg[e].context
         /\ kg[e].summarizer_raised => ItemsOf(e) = {}

\* The PrimeKG Summarizer raised, ClinicalKG exhausted its attempts on raising calls,
\* and the list returned holds the vector item only.
C12_Witness ==
  /\ ReturnedAfterGraphPaths
  /\ kg["primekg"].summarizer_raised
  /\ kg["clinicalkg"].status = "fail"
  /\ kg["clinicalkg"].summarizer_calls = 0
  /\ Len(VectorItems) = 1
  /\ ret.items = VectorItems


\* The queries whose lower-cased text contains no keyword of either routing set.
QueriesWithoutKeyword ==
  {q \in Queries : \A kw \in primekg_keywords \cup clinical_kg_keywords : ~InLower(kw, q)}

\* C13: for a query that contains no keyword of either routing set no graph engine is
\* invoked (no retry run is started, no Summarizer call is made) and a returned list
\* holds no graph item.
C13_NoKeywordNoGraph ==
  req.search_query \in QueriesWithoutKeyword =>
    /\ \A e \in Engines :
         /\ kg[e].stage \in {"none", "router", "cancelled", "done"}
         /\ kg[e].run.calls = 0
         /\ kg[e].status = "none"
         /\ kg[e].summarizer_calls = 0
         /\ ~kg[e].has_context
    /\ ret.kind = "list" =>
         \A i \in 1..Len(ret.items) : "kg_result" \notin DOMAIN ret.items[i]

\* A query with a split keyword went through both routers and returned its two
\* vector items only.
C13_Witness ==
  /\ req.search_query = "Treat ment plan"
  /\ pc = "done"
  /\ ret.kind = "list"
  /\ Len(ret.items) = 2
  /\ \A e \in Engines : kg[e].stage = "done"


\* C14: a telemetry emission that raises (vector_search_invoked, vector_search_succeeded
\* or the overall success event) does not change what the request returns: it never
\* returns an error caused by telemetry.
C14_TelemetryNeverFailsRequest ==
  (pc = "done" /\ ret.kind = "error") => ret.cause # "telemetry"


(***************************************************************************)
(* LatencySpec: MaxRequests getTopContexts calls running concurrently on   *)
(* one RetrievalService. Each embeds its query in a pool thread, which     *)
(* stores the latency it measured in self.openai_embedding_latency; after  *)
(* its gather the coroutine runs vector_search, which stores its search    *)
(* latency in self.qdrant_latency_sec and then emits                       *)
(* vector_search_succeeded with the two fields. vector_search has no       *)
(* await: it is one step of the event loop; the pool threads run beside it.*)
(***************************************************************************)
LatencyInit ==
  /\ run = NoRun("primekg")
  /\ req = [search_query |-> "", course_name |-> ""]
  /\ pc = "idle"
  /\ tasks = [t \in Lookups |-> "idle"]
  /\ search_results = <<>>
  /\ formatted = <<>>
  /\ kg = KgNotCreated
  /\ events = <<>>
  /\ ret = NoReturn
  /\ LatencyIdle
  /\ MultiIdle

\* loop.run_in_executor(executor, self._embed_query_and_measure_latency, ...)
SubmitEmbedding(r) ==
  /\ lat[r].pc = "start"
  /\ lat' = [lat EXCEPT ![r].pc = "embedding"]
  /\ UNCHANGED <<svc, requestVars, mp>>

\* _embed_query_and_measure_latency in its pool thread.
embed_query_and_measure_latency(r) ==
  /\ lat[r].pc = "embedding"
  /\ \E l \in Latencies :
       /\ svc' = [svc EXCEPT !.openai_embedding_latency = l]
       /\ lat' = [lat EXCEPT ![r].pc = "embedded", ![r].embed_measured = l]
  /\ UNCHANGED <<requestVars, mp>>

\* After the gather: vector_search measures the search, stores it, and
\* _capture_search_succeeded_event reports the two fields of self.
vector_search(r) ==
  /\ lat[r].pc = "embedded"
  /\ \E l \in Latencies :
       /\ svc' = [svc EXCEPT !.qdrant_latency_sec = l]
       /\ lat' = [lat EXCEPT ![r].pc = "done",
                             ![r].search_measured = l,
                             ![r].reported_embed = svc.openai_embedding_latency,
                             ![r].reported_search = svc'.qdrant_latency_sec]
  /\ UNCHANGED <<requestVars, mp>>

LatencyNext ==
  \E r \in Requests :
    \/ SubmitEmbedding(r)
    \/ embed_query_and_measure_latency(r)
    \/ vector_search(r)

LatencySpec == LatencyInit /\ [][LatencyNext]_vars

\* C15: with concurrent requests on one RetrievalService, the embedding latency and
\* the search latency a request reports in its vector_search_succeeded event are the
\* ones measured for its own embedding and search calls.
C15_OwnLatenciesReported ==
  \A r \in Requests :
    lat[r].pc = "done" =>
      /\ lat[r].reported_embed = lat[r].embed_measured
      /\ lat[r].reported_search = lat[r].search_measured


\* C16: when the request is cancelled while a retry loop is running, the loop makes no
\* engine invocation after the one in flight at the cancellation: at most one call of
\* the run completes after it.
C16_NoRetryAfterCancel ==
  \A e \in Engines :
    ret.kind = "cancelled" => kg[e].run.calls <= kg[e].calls_at_cancel + 1


\* C17: a returned list holds at most one graph item per engine (so at most K + 2 items
\* for K vector chunks), every graph item comes after every vector item, the PrimeKG
\* item precedes the ClinicalKG item, and the vector items keep the order of the search.
C17_MergeOrder ==
  ret.kind = "list" =>
    LET K == Len(VectorItems)
        n == Len(ret.items)
    IN /\ n <= Len(search_results) + 2
       /\ K <= n /\ n <= K + 2
       /\ SubSeq(ret.items, 1, K) = VectorItems
       /\ \A i \in 1..K : "kg_result" \notin DOMAIN ret.items[i]
       /\ \A i \in (K + 1)..n : i \in ItemsOf("primekg") \cup ItemsOf("clinicalkg")
       /\ \A e \in Engines : Cardinality(ItemsOf(e)) <= 1
       /\ \A i \in ItemsOf("primekg"), j \in ItemsOf("clinicalkg") : i < j
       /\ \A i, j \in 1..K :
            i < j => \E a, b \in 1..Len(search_results) :
                       /\ a < b
                       /\ ret.items[i]["text"] = Get(search_results[a].payload, "page_content")
                       /\ ret.items[j]["text"] = Get(search_results[b].payload, "page_content")

\* Two vector items followed by the PrimeKG item and the ClinicalKG item.
C17_Witness ==
  /\ ret.kind = "list"
  /\ Len(ret.items) = 4
  /\ ret.items[1]["text"] = "page_content-1"
  /\ ret.items[2]["text"] = "page_content-2"
  /\ ret.items[3]["readable_filename"] = "PrimeKG"
  /\ ret.items[4]["readable_filename"] = "ClinicalKG"


\* C18: every item of a returned list has a non-empty text: a vector chunk with empty
\* page content and a graph result with an empty summary are filtered out before the
\* merge.
C18_NoEmptyText ==
  ret.kind = "list" => \A i \in 1..Len(ret.items) : ret.items[i]["text"] # ""


\* The telemetry events emitted so far, and how often event name was emitted.
Emitted == {events[i] : i \in 1..Len(events)}

EmittedCount(name) == Cardinality({i \in 1..Len(events) : events[i] = name})

\* C19: the overall success event is emitted exactly for the requests that complete
\* successfully: a request that returns a list, the empty list included, has emitted it
\* once, and a request that returns an error has never emitted it.
C19_SuccessEventIffList ==
  pc = "done" =>
    /\ ret.kind = "list" => EmittedCount("getTopContexts_success_DI") = 1
    /\ ret.kind = "error" => EmittedCount("getTopContexts_success_DI") = 0

\* C20: a request emits an overall-retrieval start event before its first lookup and
\* vector_search_invoked before the vector database is called, and
\* vector_search_succeeded only after that call returned without error.
C20_StartEventsFirst ==
  /\ pc # "start" => "getTopContexts_invoked" \in Emitted
  /\ pc \in {"vdb", "search_succeeded", "success_event", "kg_gather"} =>
       "vector_search_invoked" \in Emitted
  /\ (search_results # <<>> \/ ret.cause = "vector_search") =>
       "vector_search_invoked" \in Emitted
  /\ "vector_search_succeeded" \in Emitted =>
       /\ pc \in {"success_event", "kg_gather", "done"}
       /\ ret.cause # "vector_search"
       /\ events[Len(events) - (IF "getTopContexts_success_DI" \in Emitted THEN 1 ELSE 0)]
            = "vector_search_succeeded"


\* What holds of a request whose vector database call raised, and of one in which
\* _process_search_results skipped a chunk.
C21_StateAfterSearchFailure ==
  /\ ret.cause = "vector_search" =>
       /\ pc = "done"
       /\ ret.kind = "error"
       /\ ret.items = <<>>
       /\ search_results = <<>>
       /\ formatted = <<>>
       /\ "vector_search_succeeded" \notin Emitted
       /\ \A e \in Engines : kg[e].stage = "none"
  /\ (/\ pc = "done"
      /\ ret.kind # "cancelled"
      /\ ret.cause \notin {"telemetry", "format_for_json"}
      /\ \E i \in 1..Len(search_results) : ProcessRaises(search_results[i])) =>
       ret.kind = "list"

\* C21: when the call of the vector database raises, the request returns the error
\* string with the cause and never a list; an error in the processing of one returned
\* chunk by _process_search_results is no vector-search failure and does not make the
\* request take that path.
C21_SearchFailureFailsRequest ==
  /\ []C21_StateAfterSearchFailure
  /\ [][(pc = "vdb" /\ pc' = "done") =>
          /\ ret'.kind = "error"
          /\ ret'.cause = "vector_search"
          /\ ret'.items = <<>>]_vars

\* The vector database was called after the announcement of the search and raised.
C21_Witness ==
  /\ pc = "done"
  /\ ret.kind = "error"
  /\ ret.cause = "vector_search"
  /\ events = <<"vector_search_invoked">>


\* C22: a call of getTopContexts that is not cancelled by its caller ends, whatever
\* its collaborators did, by returning either a list or one error string that names
\* the course, the query and the text of the exception; no exception leaves it.
C22_ListOrErrorString ==
  (pc = "done" /\ ret.kind # "cancelled") =>
    \/ /\ ret.kind = "list"
       /\ ret.cause = ""
       /\ ret.text = ""
    \/ /\ ret.kind = "error"
       /\ ret.items = <<>>
       /\ ret.cause \in Causes
       /\ InText("Course: " \o req.course_name, ret.text)
       /\ InText("search_query: " \o req.search_query, ret.text)
       /\ InText(ExceptionText[ret.cause], ret.text)

\* The KeyError of format_for_json came back as the error string, after the vector
\* search had succeeded.
C22_Witness ==
  /\ pc = "done"
  /\ ret.kind = "error"
  /\ ret.cause = "format_for_json"
  /\ InText("'readable_filename'", ret.text)
  /\ "vector_search_succeeded" \in Emitted


\* The queries whose lower-cased text contains a keyword of the engine's set, and
\* those whose lower-cased text contains "drug".
RoutedQueries ==
  [e \in Engines |->
     {q \in Queries :
        \E kw \in (IF e = "primekg" THEN primekg_keywords ELSE clinical_kg_keywords) :
          InText(kw, lower(q))}]

DrugQueries == {q \in Queries : InText("drug", lower(q))}

\* C23: the router of an engine answers true exactly when the lower-cased query
\* contains a keyword of that engine's set; its step changes nothing but the stage of
\* its own graph path (and the run it starts), so the answer depends on the query and
\* the engine only; a query that contains "drug" in any letter case is sent to PrimeKG.
C23_RouterByKeyword ==
  [][\A e \in Engines :
       (kg[e].stage = "router" /\ kg'[e].stage \in {"thread", "done"}) =>
         /\ kg'[e].stage = "thread" <=> req.search_query \in RoutedQueries[e]
         /\ (e = "primekg" /\ req.search_query \in DrugQueries) => kg'[e].stage = "thread"
         /\ \A o \in Engines \ {e} : kg'[o] = kg[o]
         /\ <<req, pc, tasks, search_results, formatted, events, ret>>'
              = <<req, pc, tasks, search_results, formatted, events, ret>>
         /\ kg'[e].summarizer_calls = kg[e].summarizer_calls
         /\ kg'[e].status = kg[e].status]_vars

\* The router has just sent a query with "DRUG" in capitals to PrimeKG.
C23_Witness ==
  /\ req.search_query = "Which DRUG helps?"
  /\ kg["primekg"].stage = "thread"
  /\ kg["primekg"].run.calls = 0
  /\ kg["clinicalkg"].stage = "router"


\* The points of the search result that have a page content, in their order: the
\* chunks a context item is built from.
ChunksWithContent ==
  SelectSeq(search_results, LAMBDA d : "page_content" \in DOMAIN d.payload)

OptionalFields == {"s3_path", "pagenumber", "url", "base_url", "doc_groups"}

\* C24: in a returned list the item built from a chunk has the chunk's page content
\* as text; readable_filename, s3_path, url, base_url and doc_groups carry the chunk's
\* value under the same name and course_name under the item key "course_name ";
\* pagenumber carries the chunk's pagenumber, and the chunk's pagenumber_or_timestamp
\* only when the chunk has no pagenumber; an optional field the chunk lacks is None.
C24_FieldsPreserved ==
  (pc = "done" /\ ret.kind = "list" /\ ret.items # <<>>) =>
    /\ Len(ret.items) >= Len(ChunksWithContent)
    /\ \A i \in 1..Len(ChunksWithContent) :
         LET item == ret.items[i]
             metadata == ChunksWithContent[i].payload
         IN /\ item["text"] = metadata["page_content"]
            /\ \A k \in {"readable_filename", "s3_path", "url", "base_url", "doc_groups"} :
                 k \in DOMAIN metadata => item[k] = metadata[k]
            /\ "course_name" \in DOMAIN metadata =>
                 item["course_name "] = metadata["course_name"]
            /\ "pagenumber" \in DOMAIN metadata =>
                 item["pagenumber"] = metadata["pagenumber"]
            /\ ("pagenumber" \notin DOMAIN metadata
                  /\ "pagenumber_or_timestamp" \in DOMAIN metadata) =>
                 item["pagenumber"] = metadata["pagenumber_or_timestamp"]
            /\ \A k \in OptionalFields \ {"pagenumber"} :
                 k \notin DOMAIN metadata => item[k] = NoneValue

\* A list was returned for a chunk with both page keys followed by a chunk of the old
\* schema, which has no url.
C24_Witness ==
  /\ pc = "done"
  /\ ret.kind = "list"
  /\ Len(search_results) = 2
  /\ "pagenumber" \in DOMAIN search_results[1].payload
  /\ "pagenumber_or_timestamp" \in DOMAIN search_results[1].payload
  /\ "pagenumber" \notin DOMAIN search_results[2].payload
  /\ ret.items[1]["pagenumber"] = "pagenumber-1"
  /\ ret.items[2]["pagenumber"] = "pagenumber_or_timestamp-2"
  /\ ret.items[2]["url"] = NoneValue
  /\ ret.items[2]["course_name "] = "course_name-2"


\* The vector database was called and returned no point.
SearchReturnedNoChunk ==
  /\ pc = "done"
  /\ ret.kind # "cancelled"
  /\ "vector_search_invoked" \in Emitted
  /\ ret.cause # "vector_search"
  /\ search_results = <<>>

\* C25: when the vector search returns zero chunks and no graph path gives a usable
\* answer, the request returns the empty list and not the error string.
C25_EmptySearchGivesEmptyList ==
  (SearchReturnedNoChunk /\ \A e \in Engines : ~kg[e].has_context) =>
    /\ ret.kind = "list"
    /\ ret.items = <<>>


\* C26: in a run with the default max_attempts the query strings in queries_tried are
\* pairwise distinct.
C26_QueriesTriedDistinct ==
  run.state.max_attempts = DefaultMaxAttempts =>
    \A i, j \in 1..Len(run.state.queries_tried) :
      i # j => run.state.queries_tried[i] # run.state.queries_tried[j]

\* The explored queries with a vague connective term, those with two detected
\* entities, and the fuzzy two-entity query of each engine for the latter.
VagueQueries == {q \in Queries : uses_general_term(q)}

EntityQueries == {q \in Queries : has_entities(q)}

FuzzyQuery ==
  [engine \in Engines |->
     [q \in EntityQueries |->
        IF engine = "primekg"
          THEN PrimeContainsStrategy(entity_match(q)[1], entity_match(q)[2])
          ELSE ClinicalContainsStrategy(entity_match(q)[1], entity_match(q)[2])]]

\* C27: the query tried at attempt 0 is the schema-mapping strategy; at attempt 1 it
\* is the broaden strategy for a query with a vague term and the fuzzy two-entity
\* strategy for a query with two entities; at attempt 2 it is the alternative-labels
\* strategy; the fallback strategy is tried at attempts >= 3 only.
C27_StrategyByAttempt ==
  \A i \in 1..Len(run.state.queries_tried) :
    LET attempt == i - 1
        q == run.state.user_query
        tried == run.state.queries_tried[i]
    IN /\ attempt = 0 => tried = MapStrategy(q)
       /\ (attempt = 1 /\ q \in VagueQueries \ EntityQueries) => tried = BroadenStrategy(q)
       /\ (attempt = 1 /\ q \in EntityQueries \ VagueQueries) =>
            tried = FuzzyQuery[run.engine][q]
       /\ attempt = 2 => tried = AlternativeStrategy(q)
       /\ tried = FallbackStrategy(q) => attempt >= 3


\* The answer texts that contain the phrase once lower-cased.
IdkTexts == {v \in {AnswerStr.v, IdkStr.v} : InText("i don't know the answer", lower(v))}

\* The retry run of engine e has ended in "success" with such a string as its answer.
EndedWithIdk(e) ==
  /\ kg[e].stage = "thread"
  /\ kg[e].run.node = "success"
  /\ kg[e].run.state.results.result.t = "str"
  /\ kg[e].run.state.results.result.v \in IdkTexts

\* C28: when the retry run of an engine ends in "success" with an answer string that
\* contains "i don't know the answer" in any letter case, the rest of that graph path
\* makes no Summarizer call and keeps no context; and a returned list holds an item of
\* an engine only if that path kept a context.
C28_IdkContributesNothing ==
  /\ [][\A e \in Engines :
          (EndedWithIdk(e) /\ kg'[e].stage = "done") =>
            /\ kg'[e].status = "success"
            /\ kg'[e].summarizer_calls = kg[e].summarizer_calls
            /\ ~kg'[e].has_context]_vars
  /\ [](ret.kind = "list" =>
          \A e \in Engines : ItemsOf(e) # {} => kg[e].has_context)

\* PrimeKG answered "I don't know the answer." at once: the run ended in success, the
\* Summarizer was not called and the returned list has no PrimeKG item.
C28_Witness ==
  /\ pc = "done"
  /\ ret.kind = "list"
  /\ kg["primekg"].stage = "done"
  /\ kg["primekg"].status = "success"
  /\ kg["primekg"].summarizer_calls = 0
  /\ ItemsOf("primekg") = {}
  /\ IdkStr.v \in IdkTexts


(***************************************************************************)
(* MultiSpec: one call of BaseMultiProcessor.run. The source items have    *)
(* distinct ids; each pool process runs _worker_task for one item at a     *)
(* time; the manager lock is held by at most the process in mp.lock.       *)
(* mp.calls counts the calls of _process_item_logic per id, mp.outcome     *)
(* keeps what the last one did, file0 / exists0 keep the file run found.   *)
(***************************************************************************)
MultiInit ==
  /\ run = NoRun("primekg")
  /\ OrchIdle
  /\ \E source \in SUBSET Ids, exists \in BOOLEAN, file \in OutputFiles :
       /\ ~exists => file = <<>>
       /\ mp = [NoProcessor EXCEPT !.pc = "start", !.source = source, !.exists = exists,
                                   !.file = file, !.exists0 = exists, !.file0 = file]

\* run up to the creation of the pool: the source is loaded, the processed ids are
\* read from the output file and the items still to process are selected.
LoadAndFilter ==
  /\ mp.pc = "start"
  /\ LET processed_ids == get_processed_ids(mp.exists, mp.file)
         items_to_process == mp.source \ processed_ids
     IN mp' = [mp EXCEPT !.todo = items_to_process,
                         !.pc = IF items_to_process = {} THEN "cleanup" ELSE "pool"]
  /\ UNCHANGED <<run, retrievalVars>>

\* _worker_task in pool process w for the item id, up to "with lock": the call of
\* _process_item_logic; an exception is caught and printed, None ends the task.
WorkerTask(w, id) ==
  /\ mp.pc = "pool"
  /\ mp.worker[w].pc = "idle"
  /\ id \in mp.todo
  /\ \E out \in LogicOutcomes :
       mp' = [mp EXCEPT !.todo = @ \ {id},
                        !.calls[id] = @ + 1,
                        !.outcome[id] = out,
                        !.worker[w] = IF out \in {"done", "partial"}
                                        THEN [pc |-> "computed", id |-> id, out |-> out]
                                        ELSE IdleWorker]
  /\ UNCHANGED <<run, retrievalVars>>

\* Variant of AcquireLock that enters the write section without the lock.
AcquireLockUnguarded(w) ==
  /\ mp.pc = "pool"
  /\ mp.worker[w].pc = "computed"
  /\ mp' = [mp EXCEPT !.lock = w, !.worker[w].pc = "writing"]
  /\ UNCHANGED <<run, retrievalVars>>

\* "with lock:" in process w: lock.acquire() returns once no process holds the lock.
AcquireLock(w) ==
  /\ mp.pc = "pool"
  /\ mp.worker[w].pc = "computed"
  /\ mp.lock = NoWorker
  /\ mp' = [mp EXCEPT !.lock = w, !.worker[w].pc = "writing"]
  /\ UNCHANGED <<run, retrievalVars>>

\* The body of "with lock:" in process w and the release: the file is opened for
\* append (created if missing), one line is written, the file is closed.
AppendRecord(w) ==
  /\ mp.pc = "pool"
  /\ mp.worker[w].pc = "writing"
  /\ mp' = [mp EXCEPT !.file = Append(@, [kind |-> mp.worker[w].out, id |-> mp.worker[w].id]),
                      !.exists = TRUE,
                      !.lock = IF @ = w THEN NoWorker ELSE @,
                      !.worker[w] = IdleWorker]
  /\ UNCHANGED <<run, retrievalVars>>

\* The loop over pool.imap_unordered ends when every task has returned; the pool is
\* closed.
PoolJoin ==
  /\ mp.pc = "pool"
  /\ mp.todo = {}
  /\ \A w \in Workers : mp.worker[w].pc = "idle"
  /\ mp' = [mp EXCEPT !.pc = "cleanup"]
  /\ UNCHANGED <<run, retrievalVars>>

\* _cleanup_and_summarize_output: nothing without an output file, else the file is
\* replaced by its valid lines, one per id.
CleanupAndSummarize ==
  /\ mp.pc = "cleanup"
  /\ mp' = [mp EXCEPT !.pc = "done",
                      !.file = IF mp.exists THEN cleanup_output(@) ELSE @]
  /\ UNCHANGED <<run, retrievalVars>>

MultiNext ==
  \/ LoadAndFilter
  \/ \E w \in Workers, id \in Ids : WorkerTask(w, id)
  \/ \E w \in Workers : AcquireLock(w)
  \/ \E w \in Workers : AppendRecord(w)
  \/ PoolJoin
  \/ CleanupAndSummarize

MultiSpec == MultiInit /\ [][MultiNext]_vars


\* The ids that had a valid line in the output file when run was called.
ProcessedBefore == {i \in Ids : \E k \in 1..Len(mp.file0) : mp.file0[k] = [kind |-> "done", id |-> i]}

\* C29: an item whose id had a valid record in the output file when run was called is
\* never passed to _process_item_logic, no item is passed to it twice, and after run
\* the output file holds valid records only, at most one per id.
C29_Resumable ==
  /\ \A i \in Ids :
       /\ mp.calls[i] <= 1
       /\ i \in ProcessedBefore => (mp.calls[i] = 0 /\ mp.outcome[i] = "unprocessed")
  /\ mp.pc = "done" =>
       /\ \A k \in 1..Len(mp.file) : mp.file[k].kind = "done"
       /\ \A k, l \in 1..Len(mp.file) : k # l => mp.file[k].id # mp.file[l].id

\* run found a valid record of item 1 and a record of item 2 that is not valid: it
\* processed item 2 only and left one record for each.
C29_Witness ==
  /\ mp.pc = "done"
  /\ mp.source = {1, 2}
  /\ mp.file0 = <<[kind |-> "done", id |-> 1], [kind |-> "partial", id |-> 2]>>
  /\ mp.calls[1] = 0
  /\ mp.calls[2] = 1
  /\ mp.file = <<[kind |-> "done", id |-> 1], [kind |-> "done", id |-> 2]>>

\* The lines appended to the output file since run was called.
Appended == SubSeq(mp.file, Len(mp.file0) + 1, Len(mp.file))

AppendedFor(i) == {k \in 1..Len(Appended) : Appended[k].id = i}

Writing == {w \in Workers : mp.worker[w].pc = "writing"}

\* C30: while the pool runs, at most one process is in the write section and it holds
\* the lock; the file only grows, by the records of the items whose
\* _process_item_logic returned an item, one line each once its task is over; an item
\* whose _process_item_logic raised or returned None has no line; and when the pool
\* is joined every item to process has been passed to _process_item_logic once,
\* whatever happened to the others.
C30_ExclusiveAppends ==
  /\ Cardinality(Writing) <= 1
  /\ \A w \in Writing : mp.lock = w
  /\ mp.pc \in {"pool", "cleanup"} =>
       /\ Len(mp.file) >= Len(mp.file0)
       /\ SubSeq(mp.file, 1, Len(mp.file0)) = mp.file0
       /\ \A i \in Ids :
            LET busy == \E w \in Workers : mp.worker[w].pc # "idle" /\ mp.worker[w].id = i
            IN /\ Cardinality(AppendedFor(i)) <= 1
               /\ (mp.outcome[i] \in {"done", "partial"} /\ ~busy) =>
                    /\ Cardinality(AppendedFor(i)) = 1
                    /\ \A k \in AppendedFor(i) : Appended[k].kind = mp.outcome[i]
               /\ (mp.outcome[i] \in {"raise", "none", "unprocessed"} \/ busy) =>
                    AppendedFor(i) = {}
  /\ mp.pc = "cleanup" =>
       \A i \in mp.source \ ProcessedBefore : mp.calls[i] = 1

\* Process 1 is in the write section and holds the lock while process 2 has a
\* processed item to write and waits for the lock.
C30_Witness ==
  /\ mp.pc = "pool"
  /\ mp.worker[1].pc = "writing"
  /\ mp.worker[2].pc = "computed"
  /\ mp.lock = 1


====
